---- MODULE Spec2Model ----
(***************************************************************************)
(* Model of src/src/build_tables.py: the season loader, the table builders *)
(* (players, player stats, matches, scoring events) and main(); and of the *)
(* memoized caller of main() in src/app_streamlit.py.                      *)
(*                                                                         *)
(* JSON values and DataFrame cells are tagged records [t, n, s] so that    *)
(* values of different Python types can be compared.  The DataFrame layer  *)
(* follows pandas 2.x: a column's dtype is inferred from all its values    *)
(* (int64, float64 with NaN, or object), a key missing from a record is    *)
(* NaN, a JSON null is NaN in a numeric column and None in an object       *)
(* column, and a column assigned pd.NA holds pd.NA.                        *)
(***************************************************************************)
EXTENDS Integers, Sequences, FiniteSets, TLC

VARIABLES
    resp,          \* the season document handed to the builders
    match_key,     \* the column mss["match_key"] inside build_matches_df
    matches_df,    \* result of build_matches_df(resp)
    events_df,     \* result of build_scoring_events_df(resp)
    player_stats,  \* result of build_player_stats(resp)
    download_2526, \* main's parameter
    fs,            \* the cache file of each season: its content
    pc,            \* where main is
    si,            \* the position of main's loop in SEASONS
    http,          \* the parsed body of the current call's response
    data,          \* download_season_json's local data / main's data
    all_player_stats, all_matches, all_events,  \* main's lists
    result,        \* the dict main returns
    loaded,        \* per season, what download_season_json returned
    fs0,           \* the cache files when the current download call began
    cause,         \* where the exception that left main was raised
    gets,          \* per season, the requests.get calls made for it
    memo,          \* st.cache_data entries of load_combined_tables, by argument
    clicks,        \* refresh clicks so far
    reruns,        \* script runs so far
    apc,           \* where the script of app_streamlit.py is
    refresh_clicked, \* the button's value in the current script run
    served         \* what load_combined_tables gave the current script run

buildVars == <<resp, match_key, matches_df, events_df, player_stats>>
mainVars == <<download_2526, fs, pc, si, http, data, all_player_stats,
              all_matches, all_events, result, loaded, fs0, cause,
              gets>>
appVars == <<memo, clicks, reruns, apc, refresh_clicked, served>>
vars == <<buildVars, mainVars, appVars>>

-----------------------------------------------------------------------------
(* Bounds of the model.                                                    *)

\* Largest integer a numeric string of the model can denote.
ParseMax == 30
\* Most matchScoreStatistics records in a document of SpecKey.
MaxKeyRecs == 2
\* Most matchScoreStatistics records in a document of SpecMatch.
MaxScoreRecs == 4
\* Most matchScoreStatistics records in a document of SpecEvents.
MaxEventRecs == 2
\* Most roster entries in a document of SpecEvents.
MaxRoster == 2
\* Most matchStatistics records in a document of SpecStats.
MaxStatRecs == 2
\* Most itemPlayerHistory records in a document of SpecStats.
MaxHistRecs == 2
\* Score records per document of SpecFirst.
MaxFirstRecs == 3
\* Most refresh clicks of a run of SpecApp.
MaxClicks == 2
\* Most script runs of a run of SpecApp.
MaxReruns == 5

-----------------------------------------------------------------------------
(* Raw JSON values.                                                        *)

JInt(n) == [t |-> "int", n |-> n, s |-> ""]
JStr(s) == [t |-> "str", n |-> 0, s |-> s]
Null == [t |-> "null", n |-> 0, s |-> ""]
\* The key is not in the record at all.
Missing == [t |-> "missing", n |-> 0, s |-> ""]

(* DataFrame cells and Python scalars.                                     *)
CInt(n) == [t |-> "int", n |-> n, s |-> ""]
CFloat(n) == [t |-> "float", n |-> n, s |-> ""]
CStr(s) == [t |-> "str", n |-> 0, s |-> s]
CNone == [t |-> "None", n |-> 0, s |-> ""]
CNaN == [t |-> "NaN", n |-> 0, s |-> ""]
CNA == [t |-> "NA", n |-> 0, s |-> ""]

Range(f) == {f[i] : i \in DOMAIN f}

\* int("...") and pd.to_numeric("...") on a string: decimal numerals parse.
IsIntStr(s) == \E n \in 0..ParseMax : ToString(n) = s
IntOfStr(s) == CHOOSE n \in 0..ParseMax : ToString(n) = s

\* str(x) as an f-string renders it.
Fmt(c) ==
    CASE c.t = "int" -> ToString(c.n)
      [] c.t = "float" -> ToString(c.n) \o ".0"
      [] c.t = "str" -> c.s
      [] c.t = "None" -> "None"
      [] c.t = "NaN" -> "nan"
      [] OTHER -> "<NA>"

\* pd.notna(x)
NotNa(c) == c.t \in {"int", "float", "str"}

\* pd.to_numeric(x, errors="coerce"): a float, or NaN.
ToNumeric(c) ==
    CASE c.t \in {"int", "float"} -> CFloat(c.n)
      [] c.t = "str" -> IF IsIntStr(c.s) THEN CFloat(IntOfStr(c.s)) ELSE CNaN
      [] OTHER -> CNaN

\* .astype("Int64") of a to_numeric result.
AsInt64(c) == IF c.t = "float" THEN CInt(c.n) ELSE CNA

ToInt64(c) == AsInt64(ToNumeric(c))

-----------------------------------------------------------------------------
(* to_df: the DataFrame of a list of flat records.                         *)

ColumnPresent(recs, f) == \E i \in DOMAIN recs : recs[i][f].t # "missing"

\* The cells of column f, by row, with the dtype pandas infers.
Column(recs, f) ==
    LET hasStr == \E i \in DOMAIN recs : recs[i][f].t = "str"
        hasInt == \E i \in DOMAIN recs : recs[i][f].t = "int"
        hasGap == \E i \in DOMAIN recs : recs[i][f].t \in {"null", "missing"}
        cell(v) ==
            CASE v.t = "str" -> CStr(v.s)
              [] v.t = "int" ->
                    IF ~hasStr /\ hasGap THEN CFloat(v.n) ELSE CInt(v.n)
              [] v.t = "null" ->
                    IF ~hasStr /\ hasInt THEN CNaN ELSE CNone
              [] OTHER -> CNaN
    IN  [i \in DOMAIN recs |-> cell(recs[i][f])]

\* Column f, or pd.NA in every row when the column was added by the builder.
ColumnOrNA(recs, f) ==
    IF ColumnPresent(recs, f) THEN Column(recs, f)
    ELSE [i \in DOMAIN recs |-> CNA]

\* A builder's result: a table, or the exception that left the builder.
Ok(rows) == [st |-> "ok", rows |-> rows, err |-> ""]
Raised(e) == [st |-> "raised", rows |-> <<>>, err |-> e]
Unset == [st |-> "unset", rows |-> <<>>, err |-> ""]

-----------------------------------------------------------------------------
(* build_matches_df                                                        *)

\* int(x) of a non-null cell: the integer, or ValueError for other text.
PyInt(c) ==
    CASE c.t \in {"int", "float"} -> [ok |-> TRUE, n |-> c.n]
      [] c.t = "str" /\ IsIntStr(c.s) -> [ok |-> TRUE, n |-> IntOfStr(c.s)]
      [] OTHER -> [ok |-> FALSE, n |-> 0]

\* The try block of make_match_key: pd.notna(sm) and int(sm) != 0, with an
\* exception of int() swallowed.
HasPrimary(sm) == NotNa(sm) /\ PyInt(sm).ok /\ PyInt(sm).n # 0

\* bool(x) of a cell other than pd.NA.
Truthy(c) ==
    CASE c.t \in {"int", "float"} -> c.n # 0
      [] c.t = "str" -> c.s # ""
      [] c.t = "NaN" -> TRUE
      [] OTHER -> FALSE

\* f"{x or ''}"
OrEmpty(c) == IF Truthy(c) THEN Fmt(c) ELSE ""

\* make_match_key with the event id appended to the primary key.
make_match_key_with_event(sm, ie, th, ta, date) ==
    IF HasPrimary(sm)
    THEN [ok |-> TRUE,
          key |-> "s" \o ToString(PyInt(sm).n) \o "_" \o Fmt(ie)]
    ELSE [ok |-> TRUE,
          key |-> "ie" \o Fmt(ie) \o "_h" \o Fmt(th)
                  \o "_a" \o Fmt(ta) \o "_d" \o Fmt(date)]

\* make_match_key of build_matches_df, on the cells of one row.  bool(pd.NA)
\* raises TypeError outside the try block.
make_match_key(sm, ie, th, ta, date) ==
    IF HasPrimary(sm)
    THEN [ok |-> TRUE, key |-> "s" \o ToString(PyInt(sm).n)]
    ELSE IF \E c \in {ie, th, ta, date} : c.t = "NA"
    THEN [ok |-> FALSE, key |-> ""]
    ELSE [ok |-> TRUE,
          key |-> "ie" \o OrEmpty(ie) \o "_h" \o OrEmpty(th)
                  \o "_a" \o OrEmpty(ta) \o "_d" \o OrEmpty(date)]

\* The date strings of the model, in ascending (lexicographic) order.
Dates == <<"", "2024-01-01", "2024-01-02">>

\* Position of a date cell in sort_values("itemEventDate"): nulls last.
DateRank(c) ==
    IF c.t = "str" THEN CHOOSE k \in DOMAIN Dates : Dates[k] = c.s
    ELSE Len(Dates) + 1

\* The row indices in the order of mss.sort_values("itemEventDate"); rows
\* of equal date keep their input order.
SortedIdx(dates) ==
    LET n == Len(dates)
        before(j, i) ==
            \/ DateRank(dates[j]) < DateRank(dates[i])
            \/ DateRank(dates[j]) = DateRank(dates[i]) /\ j < i
        pos(i) == 1 + Cardinality({j \in 1..n : before(j, i)})
    IN  [k \in 1..n |-> CHOOSE i \in 1..n : pos(i) = k]

\* The indices of idx (a sequence of row indices) whose key is k, in order.
GroupIdx(idx, keys, k) == SelectSeq(idx, LAMBDA i : keys[i] = k)

\* The distinct values of a sequence in order of first occurrence.
RECURSIVE Distinct(_)
Distinct(s) ==
    IF s = <<>> THEN <<>>
    ELSE LET d == Distinct(SubSeq(s, 1, Len(s) - 1))
         IN  IF s[Len(s)] \in Range(d) THEN d ELSE Append(d, s[Len(s)])

\* groupby "first": the first non-null cell of the group, else null.
AggFirst(col, g) ==
    LET nn == SelectSeq(g, LAMBDA i : NotNa(col[i]))
    IN  IF nn = <<>> THEN CNaN ELSE col[nn[1]]

MaxOf(xs) == CHOOSE x \in xs : \A y \in xs : y <= x

\* The last valid value of the group instead of the largest.
AggLast(col, g) ==
    LET nn == SelectSeq(g, LAMBDA i : ToNumeric(col[i]).t = "float")
    IN  IF nn = <<>> THEN CNA ELSE CInt(ToNumeric(col[nn[Len(nn)]]).n)

\* groupby "max" of a to_numeric column, then .astype("Int64").
AggMax(col, g) ==
    LET nums == {ToNumeric(col[i]).n : i \in {j \in Range(g) : ToNumeric(col[j]).t = "float"}}
    IN  IF nums = {} THEN CNA ELSE CInt(MaxOf(nums))

\* mss.apply(make_match_key, axis=1), by row: each row's key or exception.
match_key_column(r) ==
    LET mss == r.matchScoreStatistics
        col(f) == ColumnOrNA(mss, f)
    IN  [i \in DOMAIN mss |->
            make_match_key(col("soccerMatchId")[i], col("itemEventId")[i],
                           col("teamHomeId")[i], col("teamAwayId")[i],
                           col("itemEventDate")[i])]

build_matches_df(r) ==
    LET mss == r.matchScoreStatistics
        col(f) == ColumnOrNA(mss, f)
        keyOf == match_key_column(r)
    IN  IF mss = <<>> THEN Ok(<<>>)
        ELSE IF \E i \in DOMAIN mss : ~keyOf[i].ok THEN Raised("TypeError")
        ELSE
          LET keys == [i \in DOMAIN mss |-> keyOf[i].key]
              idx == SortedIdx(col("itemEventDate"))
              gkeys == Distinct([k \in DOMAIN idx |-> keys[idx[k]]])
              row(k) ==
                LET g == GroupIdx(idx, keys, k)
                IN  [match_key |-> k,
                     soccer_match_id |-> ToInt64(AggFirst(col("soccerMatchId"), g)),
                     item_event_id |-> AggFirst(col("itemEventId"), g),
                     item_event_date |-> AggFirst(col("itemEventDate"), g),
                     team_home |-> AggFirst(col("teamHome"), g),
                     team_away |-> AggFirst(col("teamAway"), g),
                     team_home_id |-> AggFirst(col("teamHomeId"), g),
                     team_away_id |-> AggFirst(col("teamAwayId"), g),
                     home_score |-> AggMax(col("scoreTeamHome"), g),
                     away_score |-> AggMax(col("scoreTeamAway"), g)]
          IN  Ok([j \in DOMAIN gkeys |-> row(gkeys[j])])

-----------------------------------------------------------------------------
(* build_players_df                                                        *)

JBool(b) == [t |-> "bool", n |-> IF b THEN 1 ELSE 0, s |-> ""]

\* One row per roster entry when the roster has any of the mapped columns,
\* no row at all when it has none of them.  The .get() defaults of a
\* non-empty table are scalars without .fillna/.astype.
build_players_df(r) ==
    LET players == r.players
        has(f) == ColumnPresent(players, f)
        nameOf(v) ==
            CASE v.t = "str" -> v.s
              [] v.t = "int" -> ToString(v.n)
              [] OTHER -> ""
        row(i) ==
            [player_id |-> ToInt64(Column(players, "baseObjectId")[i]),
             name |-> nameOf(players[i].name),
             exclude_from_statistics |->
                 LET v == players[i].excludeFromStatistics
                 IN  \/ v.t \in {"bool", "int"} /\ v.n # 0
                     \/ v.t = "str" /\ v.s # ""]
    IN  IF players = <<>> \/ ~(has("baseObjectId") \/ has("name")
                              \/ has("excludeFromStatistics"))
        THEN Ok(<<>>)
        ELSE IF ~has("baseObjectId") THEN Raised("TypeError")
        ELSE IF ~has("name") \/ ~has("excludeFromStatistics")
        THEN Raised("AttributeError")
        ELSE Ok([i \in DOMAIN players |-> row(i)])

-----------------------------------------------------------------------------
(* build_scoring_events_df                                                 *)

\* make_match_key of build_scoring_events_df: sm, ie, th, ta are Int64
\* cells (an integer or pd.NA), date is the raw itemEventDate cell.
events_make_match_key(sm, ie, th, ta, date) ==
    IF NotNa(sm) /\ sm.n # 0
    THEN "s" \o ToString(sm.n)
    ELSE "ie" \o Fmt(ie) \o "_h" \o Fmt(th) \o "_a" \o Fmt(ta)
         \o "_d" \o Fmt(date)

RECURSIVE Flatten(_)
Flatten(ss) == IF ss = <<>> THEN <<>> ELSE Head(ss) \o Flatten(Tail(ss))

\* left.merge(players renamed to (idf, namef), left_on=key, right_on=idf,
\* how="left"): one row per matching roster row, in roster order; a row
\* without a match is kept with null id and name.  Null keys match null keys.
MergeLeft(left, key, players, idf, namef) ==
    LET joined(row) ==
            LET hits == SelectSeq(players, LAMBDA p : p.player_id = row[key])
            IN  IF hits = <<>>
                THEN <<row @@ (idf :> CNA) @@ (namef :> CNaN)>>
                ELSE [j \in DOMAIN hits |->
                        row @@ (idf :> hits[j].player_id)
                            @@ (namef :> CStr(hits[j].name))]
    IN  Flatten([i \in DOMAIN left |-> joined(left[i])])

\* The mask taken on the identifiers of the record, before the join.
mask_goal_raw(row) == NotNa(row.scoreById) \/ NotNa(row.ownGoalById)

\* The mask of real goals: a scorer or an own-goal player was resolved.
mask_goal(row) == NotNa(row.scorer_id) \/ NotNa(row.own_goal_id)

\* Each row carries src, the position of its input record; src is not a
\* column of the table.
build_scoring_events_df(r) ==
    LET mss == r.matchScoreStatistics
        has(f) == ColumnPresent(mss, f)
        col(f) == Column(mss, f)
        num(f) == [i \in DOMAIN mss |-> ToInt64(ColumnOrNA(mss, f)[i])]
        players == build_players_df(r)
        event(i) ==
            [src |-> i,
             match_key |-> events_make_match_key(
                 num("soccerMatchId")[i], num("itemEventId")[i],
                 num("teamHomeId")[i], num("teamAwayId")[i],
                 col("itemEventDate")[i]),
             soccer_match_id |-> num("soccerMatchId")[i],
             item_event_id |-> num("itemEventId")[i],
             item_event_date |-> col("itemEventDate")[i],
             score_time |-> col("scoreTime")[i],
             team_home |-> col("teamHome")[i],
             team_away |-> col("teamAway")[i],
             team_home_id |-> num("teamHomeId")[i],
             team_away_id |-> num("teamAwayId")[i],
             score_team_id |-> num("scoreTeamId")[i],
             score_team_home |-> col("scoreTeamHome")[i],
             score_team_away |-> col("scoreTeamAway")[i],
             scoreById |-> num("scoreById")[i],
             assistById |-> num("assistById")[i],
             ownGoalById |-> num("ownGoalById")[i]]
    IN  IF mss = <<>> THEN Ok(<<>>)
        ELSE IF \E f \in {"soccerMatchId", "itemEventId", "scoreTeamId",
                          "teamHomeId", "teamAwayId"} : ~has(f)
        THEN Raised("TypeError")
        ELSE IF \E f \in {"itemEventDate", "scoreTime", "teamHome", "teamAway",
                          "scoreTeamHome", "scoreTeamAway"} : ~has(f)
        THEN Raised("KeyError")
        ELSE IF players.st # "ok" THEN players
        ELSE
          LET events == [i \in DOMAIN mss |-> event(i)]
              m1 == MergeLeft(events, "scoreById", players.rows,
                              "scorer_id", "scorer_name")
              m2 == MergeLeft(m1, "assistById", players.rows,
                              "assist_id", "assist_name")
              m3 == MergeLeft(m2, "ownGoalById", players.rows,
                              "own_goal_id", "own_goal_name")
          IN  Ok(SelectSeq(m3, mask_goal))

-----------------------------------------------------------------------------
(* build_stats_from_matchstatistics                                        *)

\* next((c for c in names if c in df.columns), None): "" stands for None.
RECURSIVE FirstPresent(_, _)
FirstPresent(recs, names) ==
    IF names = <<>> THEN ""
    ELSE IF ColumnPresent(recs, Head(names)) THEN Head(names)
    ELSE FirstPresent(recs, Tail(names))

PlayerAliases == <<"playerId", "player_id", "playerID">>

\* pick_flag: the first alias that is a column, as integers with 0 for
\* null; all 0 when no alias is a column.
pick_flag(recs, names) ==
    LET n == FirstPresent(recs, names)
    IN  [i \in DOMAIN recs |->
            IF n = "" THEN 0
            ELSE LET v == ToNumeric(Column(recs, n)[i])
                 IN  IF v.t = "float" THEN v.n ELSE 0]

\* 1 when a flag of the rows is is positive, else 0.
AnyOver(f, is) == IF \E i \in is : f[i] > 0 THEN 1 ELSE 0

RECURSIVE SumOver(_, _)
SumOver(f, is) ==
    IF is = {} THEN 0
    ELSE LET i == CHOOSE j \in is : TRUE IN f[i] + SumOver(f, is \ {i})

\* The sequence of the integers of xs in ascending order.
RECURSIVE Ascending(_)
Ascending(xs) ==
    IF xs = {} THEN <<>>
    ELSE LET m == CHOOSE x \in xs : \A y \in xs : x <= y
         IN  <<m>> \o Ascending(xs \ {m})

\* The non-null values of an Int64 column: the groups of groupby().
GroupIds(pid) == {pid[i].n : i \in {j \in DOMAIN pid : NotNa(pid[j])}}

\* One row per player id of matchStatistics.  The named aggregation reads
\* column "score" whichever alias pick_flag resolved.
build_stats_from_matchstatistics(r) ==
    LET ms == r.matchStatistics
        player_col == FirstPresent(ms, PlayerAliases)
        pid == [i \in DOMAIN ms |-> ToInt64(Column(ms, player_col)[i])]
        goals == pick_flag(ms, <<"score", "isGoal", "Score">>)
        assists == pick_flag(ms, <<"assist", "isAssist", "Assist">>)
        own_goals == pick_flag(ms, <<"ownGoal", "own_goal", "OwnGoal">>)
        ids == Ascending(GroupIds(pid))
        row(p) ==
            LET g == {i \in DOMAIN ms : pid[i] = CInt(p)}
            IN  [player_id |-> CInt(p), goals |-> SumOver(goals, g),
                 assists |-> SumOver(assists, g),
                 own_goals |-> SumOver(own_goals, g)]
    IN  IF ms = <<>> \/ player_col = "" THEN Ok(<<>>)
        ELSE IF ~ColumnPresent(ms, "score") THEN Raised("KeyError")
        ELSE Ok([k \in DOMAIN ids |-> row(ids[k])])

-----------------------------------------------------------------------------
(* build_matches_played_from_itemplayerhistory                             *)

\* The itemEventId alone, whatever soccerMatchId is.
choose_match_id_event_only(sm, ie) == "ie" \o Fmt(ie)

\* choose_match_id: sm is an Int64 cell, ie the raw itemEventId cell that
\* .astype(str) renders.
choose_match_id(sm, ie) ==
    IF NotNa(sm) /\ sm.n # 0 THEN "s" \o ToString(sm.n)
    ELSE "ie" \o Fmt(ie)

\* One row per player id of itemPlayerHistory: the number of distinct match
\* identifiers.  iph.get("itemEventId", "") is a str when the column is absent.
build_matches_played_from_itemplayerhistory(r) ==
    LET iph == r.itemPlayerHistory
        player_col == FirstPresent(iph, PlayerAliases)
        pid == [i \in DOMAIN iph |-> ToInt64(Column(iph, player_col)[i])]
        sm == [i \in DOMAIN iph |-> ToInt64(ColumnOrNA(iph, "soccerMatchId")[i])]
        mid == [i \in DOMAIN iph |->
                   choose_match_id(sm[i], Column(iph, "itemEventId")[i])]
        ids == Ascending(GroupIds(pid))
        row(p) ==
            [player_id |-> CInt(p),
             matches_played |->
                 Cardinality({mid[i] : i \in {j \in DOMAIN iph : pid[j] = CInt(p)}})]
    IN  IF iph = <<>> \/ player_col = "" THEN Ok(<<>>)
        ELSE IF ~ColumnPresent(iph, "itemEventId") THEN Raised("AttributeError")
        ELSE Ok([k \in DOMAIN ids |-> row(ids[k])])

-----------------------------------------------------------------------------
(* build_player_stats                                                      *)

\* df.merge(right, on="player_id", how="left") followed by fillna(0) of the
\* columns cols: the values of the right rows with the row's player_id, one row
\* per such right row, and 0 in a row without one.
MergeStat(left, right, cols) ==
    LET joined(row) ==
            LET hits == SelectSeq(right, LAMBDA x : x.player_id = row.player_id)
            IN  IF hits = <<>>
                THEN <<row @@ [f \in cols |-> 0]>>
                ELSE [j \in DOMAIN hits |-> row @@ [f \in cols |-> hits[j][f]]]
    IN  Flatten([i \in DOMAIN left |-> joined(left[i])])

\* The same order with rows of equal goals and assists reversed.
SortByGoalsTiesReversed(rows) ==
    LET n == Len(rows)
        before(j, i) ==
            \/ rows[j].goals > rows[i].goals
            \/ rows[j].goals = rows[i].goals /\ rows[j].assists > rows[i].assists
            \/ rows[j].goals = rows[i].goals /\ rows[j].assists = rows[i].assists
               /\ j > i
        pos(i) == 1 + Cardinality({j \in 1..n : before(j, i)})
    IN  [k \in 1..n |-> rows[CHOOSE i \in 1..n : pos(i) = k]]

\* sort_values(by=["goals", "assists"], ascending=[False, False]): a stable
\* sort on the two columns.
SortByGoals(rows) ==
    LET n == Len(rows)
        before(j, i) ==
            \/ rows[j].goals > rows[i].goals
            \/ rows[j].goals = rows[i].goals /\ rows[j].assists > rows[i].assists
            \/ rows[j].goals = rows[i].goals /\ rows[j].assists = rows[i].assists
               /\ j < i
        pos(i) == 1 + Cardinality({j \in 1..n : before(j, i)})
    IN  [k \in 1..n |-> rows[CHOOSE i \in 1..n : pos(i) = k]]

\* Each row carries src, the position of its roster entry; src is not a
\* column of the table.
build_player_stats(r) ==
    LET players_df == build_players_df(r)
        agg_stats == build_stats_from_matchstatistics(r)
        matches_played == build_matches_played_from_itemplayerhistory(r)
    IN  IF players_df.st # "ok" THEN players_df
        ELSE IF agg_stats.st # "ok" THEN agg_stats
        ELSE IF matches_played.st # "ok" THEN matches_played
        ELSE
          LET df == [i \in DOMAIN players_df.rows |->
                        players_df.rows[i] @@ [src |-> i]]
              withStats == MergeStat(df, agg_stats.rows,
                                     {"goals", "assists", "own_goals"})
              withPlayed == MergeStat(withStats, matches_played.rows,
                                      {"matches_played"})
          IN  Ok(SortByGoals(withPlayed))

-----------------------------------------------------------------------------
(* Documents.                                                              *)

\* A complete matchScoreStatistics record; the specifications vary fields
\* of it.
BaseScore ==
    [soccerMatchId |-> JInt(0), itemEventId |-> JInt(1),
     itemEventDate |-> JStr("2024-01-01"), scoreTime |-> JInt(7),
     teamHome |-> JStr("A"), teamAway |-> JStr("B"),
     teamHomeId |-> JInt(10), teamAwayId |-> JInt(20),
     scoreTeamId |-> JInt(10),
     scoreTeamHome |-> JInt(1), scoreTeamAway |-> JInt(0),
     scoreById |-> JInt(1), assistById |-> Null, ownGoalById |-> Null]

Player(id, name) ==
    [baseObjectId |-> id, name |-> JStr(name),
     excludeFromStatistics |-> JBool(FALSE)]

BaseRoster == <<Player(JInt(1), "A"), Player(JInt(2), "B")>>

Doc(players, ms, iph, mss) ==
    [players |-> players, matchStatistics |-> ms,
     itemPlayerHistory |-> iph, matchScoreStatistics |-> mss]

\* The sequences over rs of length lo..hi.
SeqsOf(rs, lo, hi) == UNION {[1..n -> rs] : n \in lo..hi}

-----------------------------------------------------------------------------
(* The builders applied to a document.                                     *)

SEASONS == <<"25/26", "24/25">>

\* main has not been called: the state of the specifications that apply
\* the builders to a document.
MainIdle ==
    /\ download_2526 = FALSE
    /\ fs = [s \in Range(SEASONS) |-> "absent"]
    /\ pc = "idle"
    /\ si = 1
    /\ http = ""
    /\ data = "none"
    /\ all_player_stats = <<>>
    /\ all_matches = <<>>
    /\ all_events = <<>>
    /\ result = [st |-> "unset"]
    /\ loaded = [s \in Range(SEASONS) |-> "pending"]
    /\ fs0 = fs
    /\ cause = ""
    /\ gets = [s \in Range(SEASONS) |-> 0]

BuildMatches ==
    /\ matches_df = Unset
    /\ match_key' = match_key_column(resp)
    /\ matches_df' = build_matches_df(resp)
    /\ UNCHANGED <<resp, events_df, player_stats, mainVars, appVars>>

BuildEvents ==
    /\ events_df = Unset
    /\ events_df' = build_scoring_events_df(resp)
    /\ UNCHANGED <<resp, match_key, matches_df, player_stats, mainVars, appVars>>

BuildPlayerStats ==
    /\ player_stats = Unset
    /\ player_stats' = build_player_stats(resp)
    /\ UNCHANGED <<resp, match_key, matches_df, events_df, mainVars, appVars>>

\* No entry of the memo: "none" for both arguments.
NoMemo == [k \in BOOLEAN |-> [kind |-> "none", epoch |-> 0]]

\* The script of app_streamlit.py has not run.
AppIdle ==
    /\ memo = NoMemo
    /\ clicks = 0
    /\ reruns = 0
    /\ apc = "idle"
    /\ refresh_clicked = FALSE
    /\ served = [kind |-> "none", epoch |-> 0]

InitOutputs ==
    /\ AppIdle
    /\ match_key = <<>>
    /\ matches_df = Unset
    /\ events_df = Unset
    /\ player_stats = Unset
    /\ MainIdle

(* SpecKey: documents whose score records vary in the identifying fields.  *)

SmVals == {Null, Missing, JInt(0), JInt(5), JStr("5"), JStr("x")}

\* (itemEventId, teamHomeId) pairs: falsy values and separator text.
IeThVals ==
    {<<JInt(0), JInt(10)>>, <<JStr(""), JInt(10)>>, <<JStr("1"), JStr("2_h3")>>,
     <<JStr("1_h2"), JStr("3")>>, <<JInt(1), JInt(0)>>, <<JInt(1), Null>>,
     <<JInt(1), JStr("")>>}

\* (teamAwayId, itemEventDate) pairs.
TaDateVals ==
    {<<JInt(0), JStr("2024-01-01")>>, <<Null, JStr("2024-01-01")>>,
     <<JInt(20), JStr("2024-01-02")>>, <<JInt(20), JStr("")>>,
     <<JInt(20), Null>>}

KeyRecs ==
    {[BaseScore EXCEPT !.soccerMatchId = sm, !.itemEventId = ie] :
        sm \in SmVals, ie \in {JInt(1), JStr("e1")}}
    \cup {[BaseScore EXCEPT !.itemEventId = p[1], !.teamHomeId = p[2]] :
        p \in IeThVals}
    \cup {[BaseScore EXCEPT !.teamAwayId = p[1], !.itemEventDate = p[2]] :
        p \in TaDateVals}

InitKey ==
    /\ resp \in {Doc(BaseRoster, <<>>, <<>>, mss) :
                    mss \in SeqsOf(KeyRecs, 0, MaxKeyRecs)}
    /\ InitOutputs

NextKey == BuildMatches \/ BuildEvents

SpecKey == InitKey /\ [][NextKey]_vars

-----------------------------------------------------------------------------
(* Properties of the match key.                                            *)

\* The identifier a raw soccerMatchId denotes; 0 when it is 0, null, absent
\* or not a number.
IdNum(v) ==
    CASE v.t = "int" -> v.n
      [] v.t = "str" /\ IsIntStr(v.s) -> IntOfStr(v.s)
      [] OTHER -> 0

\* The four fields of the composite key, as they are in the record.
Four(rec) ==
    <<rec.itemEventId, rec.teamHomeId, rec.teamAwayId, rec.itemEventDate>>

ScoreRecs == resp.matchScoreStatistics

\* C2: two score records with the same nonzero soccerMatchId get the same
\* match_key from build_matches_df, whatever their other fields are: the
\* key is "s" followed by the identifier.
C2_SameIdSameKey ==
    matches_df # Unset =>
        \A i, j \in DOMAIN ScoreRecs :
            (/\ IdNum(ScoreRecs[i].soccerMatchId) # 0
             /\ IdNum(ScoreRecs[i].soccerMatchId) = IdNum(ScoreRecs[j].soccerMatchId))
            => /\ match_key[i].ok
               /\ match_key[i].key = match_key[j].key
               /\ match_key[i].key = "s" \o ToString(IdNum(ScoreRecs[i].soccerMatchId))

\* Two records with one nonzero soccerMatchId and different other fields
\* have been keyed.
C2_Witness ==
    /\ matches_df.st = "ok"
    /\ \E i, j \in DOMAIN ScoreRecs :
        /\ IdNum(ScoreRecs[i].soccerMatchId) # 0
        /\ IdNum(ScoreRecs[i].soccerMatchId) = IdNum(ScoreRecs[j].soccerMatchId)
        /\ ScoreRecs[i].itemEventId # ScoreRecs[j].itemEventId

\* C3: two score records whose soccerMatchId is 0, absent or unparseable
\* get the same match_key exactly when their (itemEventId, teamHomeId,
\* teamAwayId, itemEventDate) are all equal.
C3_CompositeInjective ==
    matches_df.st = "ok" =>
        \A i, j \in DOMAIN ScoreRecs :
            (IdNum(ScoreRecs[i].soccerMatchId) = 0
             /\ IdNum(ScoreRecs[j].soccerMatchId) = 0)
            => ((match_key[i].key = match_key[j].key)
                <=> (Four(ScoreRecs[i]) = Four(ScoreRecs[j])))

\* C4: the match_key of every scoring event is the match_key that
\* build_matches_df derives for the event's record, and so is the key of a
\* row of the matches table.
C4_EventKeyIsMatchKey ==
    (matches_df.st = "ok" /\ events_df.st = "ok") =>
        \A k \in DOMAIN events_df.rows :
            LET e == events_df.rows[k]
            IN  /\ e.match_key = match_key[e.src].key
                /\ \E m \in DOMAIN matches_df.rows :
                       matches_df.rows[m].match_key = e.match_key

-----------------------------------------------------------------------------
(* SpecMatch: documents whose score records are snapshots of two matches   *)
(* with varying running scores.                                            *)

\* (scoreTeamHome, scoreTeamAway) pairs.
ScorePairs ==
    {<<JInt(1), JInt(0)>>, <<JInt(2), JInt(0)>>, <<JInt(3), JInt(1)>>,
     <<Null, JStr("x")>>, <<JStr("x"), Null>>, <<JStr("2"), Missing>>}

MatchRecs ==
    {[BaseScore EXCEPT !.soccerMatchId = JInt(5), !.scoreTeamHome = p[1],
                       !.scoreTeamAway = p[2]] : p \in ScorePairs}
    \cup {[BaseScore EXCEPT !.scoreTeamHome = p[1], !.scoreTeamAway = p[2]] :
             p \in {<<JInt(2), JInt(2)>>, <<Null, Null>>}}

InitMatch ==
    /\ resp \in {Doc(BaseRoster, <<>>, <<>>, mss) :
                    mss \in SeqsOf(MatchRecs, 0, MaxScoreRecs)}
    /\ InitOutputs

NextMatch == BuildMatches

SpecMatch == InitMatch /\ [][NextMatch]_vars

\* A raw score value that is a number, and the number.
ValidNum(v) == v.t = "int" \/ (v.t = "str" /\ IsIntStr(v.s))
NumVal(v) == IF v.t = "int" THEN v.n ELSE IntOfStr(v.s)

\* The input records build_matches_df put in the group of key k.
Members(k) == {i \in DOMAIN ScoreRecs : match_key[i].key = k}

\* The valid values of field f among the records is.
ValidVals(is, f) ==
    {NumVal(ScoreRecs[i][f]) : i \in {j \in is : ValidNum(ScoreRecs[j][f])}}

MaxOrNull(vs) == IF vs = {} THEN CNA ELSE CInt(MaxOf(vs))

\* C5: in every row of the matches table, home_score (away_score) is the
\* largest numerically valid scoreTeamHome (scoreTeamAway) of the records of
\* the row's match_key, and null when the group has no valid value.
C5_ScoreIsMax ==
    matches_df.st = "ok" =>
        \A m \in DOMAIN matches_df.rows :
            LET row == matches_df.rows[m]
                g == Members(row.match_key)
            IN  /\ g # {}
                /\ row.home_score = MaxOrNull(ValidVals(g, "scoreTeamHome"))
                /\ row.away_score = MaxOrNull(ValidVals(g, "scoreTeamAway"))

\* A group of snapshots 3, 1, 2 and a non-number, in an order whose last
\* valid value is not the largest, got home_score 3; another side is null.
C5_Witness ==
    /\ matches_df.st = "ok"
    /\ Len(ScoreRecs) = 4
    /\ \E m \in DOMAIN matches_df.rows :
        LET row == matches_df.rows[m]
            g == Members(row.match_key)
        IN  /\ g = {1, 2, 3, 4}
            /\ ScoreRecs[1].scoreTeamHome = JInt(3)
            /\ ScoreRecs[2].scoreTeamHome = JStr("x")
            /\ ScoreRecs[3].scoreTeamHome = JInt(1)
            /\ ScoreRecs[4].scoreTeamHome = JStr("2")
            /\ row.home_score = CInt(3)
            /\ row.away_score = CInt(1)

-----------------------------------------------------------------------------
(* SpecEvents: documents whose score records vary in the player references *)
(* and whose rosters vary, with repeated and null player ids.              *)

EventRecs ==
    {[BaseScore EXCEPT !.scoreById = sc, !.ownGoalById = og] :
        sc \in {Null, Missing, JInt(1), JInt(3)},
        og \in {Null, JInt(2), JInt(3)}}
    \cup {[BaseScore EXCEPT !.assistById = JInt(1)],
          [BaseScore EXCEPT !.assistById = JInt(3), !.scoreById = JStr("1")]}

Rosters ==
    SeqsOf({Player(JInt(1), "A"), Player(JInt(2), "B"), Player(Null, "C")},
           0, MaxRoster)

InitEvents ==
    /\ resp \in {Doc(ps, <<>>, <<>>, mss) :
                    ps \in Rosters, mss \in SeqsOf(EventRecs, 0, MaxEventRecs)}
    /\ InitOutputs

NextEvents == BuildEvents

SpecEvents == InitEvents /\ [][NextEvents]_vars

\* The player ids of the roster.
RosterIds ==
    {NumVal(resp.players[i].baseObjectId) :
        i \in {j \in DOMAIN resp.players : ValidNum(resp.players[j].baseObjectId)}}

\* The identifier v names a player of the roster.
Resolved(v) == ValidNum(v) /\ NumVal(v) \in RosterIds

\* C6: a score record has a row in the events table exactly when its scorer
\* or its own-goal identifier resolves to a roster player, and every row of
\* the table has a non-null scorer_id or a non-null own_goal_id.
C6_EventIffIdentity ==
    events_df.st = "ok" =>
        /\ \A i \in DOMAIN ScoreRecs :
              (\E k \in DOMAIN events_df.rows : events_df.rows[k].src = i)
              <=> (Resolved(ScoreRecs[i].scoreById)
                   \/ Resolved(ScoreRecs[i].ownGoalById))
        /\ \A k \in DOMAIN events_df.rows :
              NotNa(events_df.rows[k].scorer_id)
              \/ NotNa(events_df.rows[k].own_goal_id)

\* A record whose scorer id names no roster player was dropped while a
\* record with a resolved own-goal player was kept.
C6_Witness ==
    /\ events_df.st = "ok"
    /\ \E i, j \in DOMAIN ScoreRecs :
        /\ ScoreRecs[i].scoreById = JInt(3)
        /\ ScoreRecs[i].ownGoalById = Null
        /\ \A k \in DOMAIN events_df.rows : events_df.rows[k].src # i
        /\ ScoreRecs[j].scoreById = Null
        /\ \E k \in DOMAIN events_df.rows :
              /\ events_df.rows[k].src = j
              /\ events_df.rows[k].own_goal_id = CInt(2)

-----------------------------------------------------------------------------
(* SpecStats: documents whose matchStatistics and itemPlayerHistory vary,  *)
(* in their records and in the columns they have.                          *)

NoStat ==
    [f \in {"playerId", "player_id", "playerID", "score", "isGoal", "Score",
            "assist", "isAssist", "Assist", "ownGoal", "own_goal", "OwnGoal"}
        |-> Missing]

StatRecs ==
    {[NoStat EXCEPT !.playerId = x[1], !.score = x[2], !.assist = x[3]] :
        x \in {<<JInt(1), JInt(1), Missing>>, <<JInt(1), JInt(0), JInt(1)>>,
               <<JInt(2), JInt(1), Missing>>}}
    \cup {[NoStat EXCEPT !.playerId = JInt(1), !.isGoal = JInt(1)],
          [NoStat EXCEPT !.playerId = JInt(1), !.score = JInt(0),
                         !.isAssist = JInt(1)],
          [NoStat EXCEPT !.playerId = Null, !.score = JInt(1)],
          [NoStat EXCEPT !.player_id = JInt(2), !.score = JInt(1),
                         !.ownGoal = JInt(1)]}

HistRec(p, sm, ie) == [playerId |-> p, soccerMatchId |-> sm, itemEventId |-> ie]

HistRecs ==
    {HistRec(JInt(1), x[1], x[2]) :
        x \in {<<JInt(5), JInt(1)>>, <<JInt(0), JInt(1)>>, <<JInt(0), JInt(2)>>,
               <<JInt(5), Missing>>}}
    \cup {HistRec(JInt(2), JInt(0), JInt(1))}

StatRosters ==
    {<<>>, BaseRoster,
     <<Player(JInt(2), "B"), Player(Null, "C"), Player(JInt(1), "A")>>}

InitStats ==
    /\ resp \in {Doc(ps, ms, iph, <<>>) :
                    ps \in StatRosters,
                    ms \in SeqsOf(StatRecs, 0, MaxStatRecs),
                    iph \in SeqsOf(HistRecs, 0, MaxHistRecs)}
    /\ InitOutputs

NextStats == BuildPlayerStats

SpecStats == InitStats /\ [][NextStats]_vars

\* The roster entry at position i has no record in matchStatistics or
\* itemPlayerHistory under any player alias.
NoEvents(i) ==
    LET id == resp.players[i].baseObjectId
    IN  \A recs \in {resp.matchStatistics, resp.itemPlayerHistory} :
            \A k \in DOMAIN recs :
                \A a \in Range(PlayerAliases) \cap DOMAIN recs[k] :
                    recs[k][a] # id

\* C1: build_player_stats returns one row per roster entry, whatever
\* matchStatistics and itemPlayerHistory contain, and a player without
\* events has goals, assists, own_goals and matches_played 0.
C1_OneRowPerPlayer ==
    player_stats # Unset =>
        /\ player_stats.st = "ok"
        /\ Len(player_stats.rows) = Len(resp.players)
        /\ \A i \in DOMAIN resp.players :
              \E k \in DOMAIN player_stats.rows :
                  LET row == player_stats.rows[k]
                  IN  /\ row.src = i
                      /\ NoEvents(i) =>
                            /\ row.goals = 0 /\ row.assists = 0
                            /\ row.own_goals = 0 /\ row.matches_played = 0

-----------------------------------------------------------------------------
(* main and download_season_json.                                          *)
(*                                                                         *)
(* A cache file is "absent", holds a document (its name), or holds text    *)
(* that is not JSON: "garbage", or the "empty" or "partial" file that      *)
(* open("w") and an interrupted json.dump leave.                           *)

DocA ==
    Doc(BaseRoster,
        <<[NoStat EXCEPT !.playerId = JInt(1), !.score = JInt(1)],
          [NoStat EXCEPT !.playerId = JInt(1), !.score = JInt(1)]>>,
        <<HistRec(JInt(1), JInt(5), JInt(1))>>,
        <<[BaseScore EXCEPT !.soccerMatchId = JInt(5)],
          [BaseScore EXCEPT !.soccerMatchId = JInt(5), !.scoreTeamHome = JInt(2)],
          [BaseScore EXCEPT !.soccerMatchId = JInt(6), !.scoreById = Null]>>)

DocB ==
    Doc(<<Player(JInt(2), "B")>>, <<>>, <<>>,
        <<[BaseScore EXCEPT !.soccerMatchId = JInt(7), !.scoreById = JInt(2)]>>)

\* A document whose matchStatistics has a goal alias but no "score" column.
DocC ==
    Doc(BaseRoster, <<[NoStat EXCEPT !.playerId = JInt(1), !.isGoal = JInt(1)]>>,
        <<>>, <<>>)

DocNames == {"docA", "docB", "docC"}

\* data.get("response", data) of a loaded document.
DocOf(name) ==
    CASE name = "docA" -> DocA
      [] name = "docB" -> DocB
      [] OTHER -> DocC

\* _load_local_json on a file: None when it does not exist, the document
\* when it holds one, and json.load's exception otherwise.
load_local_json(file) ==
    CASE file = "absent" -> [st |-> "ok", data |-> "none"]
      [] file \in DocNames -> [st |-> "ok", data |-> file]
      [] OTHER -> [st |-> "raised", data |-> "none"]

\* The flag alone, whatever the season.
allow_download_any(season) == download_2526

\* allow_download of main's loop.
allow_download(season) ==
    IF season = "24/25" THEN FALSE
    ELSE IF season = "25/26" THEN download_2526
    ELSE FALSE

Season == SEASONS[si]

\* download_season_json returns d to main.
Return(d) ==
    /\ data' = d
    /\ loaded' = [loaded EXCEPT ![Season] = d]
    /\ pc' = "loaded"
    /\ UNCHANGED cause

\* An exception leaves main.
Raise(where) ==
    /\ pc' = "raised"
    /\ cause' = where
    /\ UNCHANGED <<data, loaded>>

\* return _load_local_json(file_path), from either place that calls it.
ReadLocal ==
    LET r == load_local_json(fs[Season])
    IN  IF r.st = "ok" THEN Return(r.data) ELSE Raise("load")

\* allow_download is False: the local file only.
LoadLocalOnly ==
    /\ UNCHANGED appVars
    /\ pc = "season"
    /\ ~allow_download(Season)
    /\ ReadLocal
    /\ UNCHANGED <<buildVars, download_2526, fs, si, http, all_player_stats,
                   all_matches, all_events, result, fs0, gets>>

\* requests.get, raise_for_status and resp.json(): any of them raises, or
\* the body parses to a document.
HttpGet ==
    /\ UNCHANGED appVars
    /\ pc = "season"
    /\ allow_download(Season)
    /\ fs0' = fs
    /\ gets' = [gets EXCEPT ![Season] = @ + 1]
    /\ \/ /\ \E e \in {"request", "status", "body"} : http' = e
          /\ pc' = "fallback"
       \/ /\ \E d \in DocNames : http' = d
          /\ pc' = "open"
    /\ UNCHANGED <<buildVars, download_2526, fs, si, data, all_player_stats,
                   all_matches, all_events, result, loaded, cause>>

\* file_path.open("w"): the file is truncated, or the open fails.
OpenForWrite ==
    /\ UNCHANGED appVars
    /\ pc = "open"
    /\ \/ /\ fs' = [fs EXCEPT ![Season] = "empty"]
          /\ pc' = "dump"
       \/ /\ pc' = "fallback"
          /\ UNCHANGED fs
    /\ UNCHANGED <<buildVars, download_2526, si, http, data, all_player_stats,
                   all_matches, all_events, result, loaded, fs0, cause, gets>>

\* json.dump(data, fh): the document is written, or the write fails with
\* nothing or a part of it in the file.
Dump ==
    /\ UNCHANGED appVars
    /\ pc = "dump"
    /\ \/ /\ fs' = [fs EXCEPT ![Season] = http]
          /\ Return(http)
       \/ /\ \E left \in {"empty", "partial"} :
                fs' = [fs EXCEPT ![Season] = left]
          /\ pc' = "fallback"
          /\ UNCHANGED <<data, loaded, cause>>
    /\ UNCHANGED <<buildVars, download_2526, si, http, all_player_stats,
                   all_matches, all_events, result, fs0, gets>>

\* The except branch: fall back to the existing local file.
Fallback ==
    /\ UNCHANGED appVars
    /\ pc = "fallback"
    /\ ReadLocal
    /\ UNCHANGED <<buildVars, download_2526, fs, si, http, all_player_stats,
                   all_matches, all_events, result, fs0, gets>>

\* df["season"] = season
Tag(rows, season) == [k \in DOMAIN rows |-> rows[k] @@ [season |-> season]]

\* The loop goes on to the next season, or ends.
NextSeason(i) ==
    IF i < Len(SEASONS) THEN [pc |-> "season", si |-> i + 1]
    ELSE [pc |-> "combine", si |-> i]

\* The loop ends at a season without data.
ContinueAsBreak(i) == [pc |-> "combine", si |-> i]

\* if data is None: continue
Continue(i) == NextSeason(i)

\* The body of main's loop after download_season_json returned: continue
\* when data is None, else build the three tables, tag and append them.
SkipOrBuild ==
    /\ UNCHANGED appVars
    /\ pc = "loaded"
    /\ UNCHANGED <<download_2526, fs, http, data, result, loaded, fs0, gets>>
    /\ IF data = "none"
       THEN /\ pc' = Continue(si).pc
            /\ si' = Continue(si).si
            /\ UNCHANGED <<buildVars, all_player_stats, all_matches,
                           all_events, cause>>
       ELSE LET r == DocOf(data)
                ps == build_player_stats(r)
                m == build_matches_df(r)
                ev == build_scoring_events_df(r)
                raised == ps.st # "ok" \/ m.st # "ok" \/ ev.st # "ok"
            IN  /\ resp' = r
                /\ player_stats' = ps
                /\ match_key' = IF ps.st = "ok" THEN match_key_column(r)
                                ELSE match_key
                /\ matches_df' = IF ps.st = "ok" THEN m ELSE matches_df
                /\ events_df' = IF ps.st = "ok" /\ m.st = "ok" THEN ev
                                ELSE events_df
                /\ IF raised
                   THEN /\ pc' = "raised"
                        /\ cause' = "build"
                        /\ UNCHANGED <<si, all_player_stats, all_matches,
                                       all_events>>
                   ELSE /\ all_player_stats' =
                              Append(all_player_stats, Tag(ps.rows, Season))
                        /\ all_matches' = Append(all_matches, Tag(m.rows, Season))
                        /\ all_events' = Append(all_events, Tag(ev.rows, Season))
                        /\ pc' = NextSeason(si).pc
                        /\ si' = NextSeason(si).si
                        /\ UNCHANGED cause

\* The last table only.
ConcatLast(tables) == IF tables = <<>> THEN <<>> ELSE tables[Len(tables)]

\* pd.concat(tables, ignore_index=True), or an empty DataFrame for no table.
Concat(tables) == Flatten(tables)

\* The three combined tables are built and returned.
Combine ==
    /\ UNCHANGED appVars
    /\ pc = "combine"
    /\ result' = [st |-> "ok",
                  player_stats_all |-> Concat(all_player_stats),
                  matches_all |-> Concat(all_matches),
                  events_all |-> Concat(all_events)]
    /\ pc' = "done"
    /\ UNCHANGED <<buildVars, download_2526, fs, si, http, data,
                   all_player_stats, all_matches, all_events, loaded, fs0,
                   cause, gets>>

\* main(download_2526) is called with the cache files in any state a
\* previous run or the user can have left them in.
InitMain ==
    /\ resp = Doc(<<>>, <<>>, <<>>, <<>>)
    /\ match_key = <<>>
    /\ matches_df = Unset
    /\ events_df = Unset
    /\ player_stats = Unset
    /\ AppIdle
    /\ download_2526 \in BOOLEAN
    /\ fs \in [Range(SEASONS) -> {"absent", "garbage"} \cup DocNames]
    /\ pc = "season"
    /\ si = 1
    /\ http = ""
    /\ data = "none"
    /\ all_player_stats = <<>>
    /\ all_matches = <<>>
    /\ all_events = <<>>
    /\ result = [st |-> "unset"]
    /\ loaded = [s \in Range(SEASONS) |-> "pending"]
    /\ fs0 = fs
    /\ cause = ""
    /\ gets = [s \in Range(SEASONS) |-> 0]

NextMain ==
    \/ LoadLocalOnly
    \/ HttpGet
    \/ OpenForWrite
    \/ Dump
    \/ Fallback
    \/ SkipOrBuild
    \/ Combine

SpecMain == InitMain /\ [][NextMain]_vars

-----------------------------------------------------------------------------
(* Properties of main and download_season_json.                            *)

\* The rows of a combined table that carry the label of season s.
RowsOf(rows, s) == SelectSeq(rows, LAMBDA x : x.season = s)

\* The three tables the builders make of the document that season s
\* loaded, labelled s; no rows when the season loaded nothing.
SeasonTables(s) ==
    IF loaded[s] \in DocNames
    THEN [player_stats_all |-> Tag(build_player_stats(DocOf(loaded[s])).rows, s),
          matches_all |-> Tag(build_matches_df(DocOf(loaded[s])).rows, s),
          events_all |-> Tag(build_scoring_events_df(DocOf(loaded[s])).rows, s)]
    ELSE [player_stats_all |-> <<>>, matches_all |-> <<>>, events_all |-> <<>>]

TableNames == {"player_stats_all", "matches_all", "events_all"}

\* C7: a season for which download_season_json returned None is skipped:
\* main does not raise at it, goes on to the other seasons, returns tables
\* without any row of that season, and the rows of every other season are
\* those of that season's own document.
C7_SkippedSeason ==
    \A s \in Range(SEASONS) :
        loaded[s] = "none" =>
            /\ ~(pc = "raised" /\ Season = s)
            /\ pc = "done" =>
                  /\ \A x \in TableNames : RowsOf(result[x], s) = <<>>
                  /\ \A u \in Range(SEASONS) :
                        /\ loaded[u] # "pending"
                        /\ \A x \in TableNames :
                              RowsOf(result[x], u) = SeasonTables(u)[x]

\* main returned with 24/25 skipped for want of a cache file and 25/26
\* loaded.
C7_Witness ==
    /\ pc = "done"
    /\ fs0["24/25"] = "absent"
    /\ loaded["24/25"] = "none"
    /\ loaded["25/26"] = "docA"
    /\ Len(result.player_stats_all) = 2
    /\ Len(result.events_all) = 2

RECURSIVE SumLen(_, _)
SumLen(x, ss) ==
    IF ss = {} THEN 0
    ELSE LET s == CHOOSE u \in ss : TRUE
         IN  Len(SeasonTables(s)[x]) + SumLen(x, ss \ {s})

\* C8: each combined table main returns has as many rows as the per-season
\* tables of the seasons that loaded have together, and every row carries
\* the label of a season that loaded, each season labelling as many rows as
\* its table has.
C8_CombinedCounts ==
    pc = "done" =>
        \A x \in TableNames :
            /\ Len(result[x]) =
                   SumLen(x, {s \in Range(SEASONS) : loaded[s] \in DocNames})
            /\ \A k \in DOMAIN result[x] :
                   loaded[result[x][k].season] \in DocNames
            /\ \A s \in Range(SEASONS) :
                   Len(RowsOf(result[x], s)) = Len(SeasonTables(s)[x])

\* main returned with both seasons loaded from different documents.
C8_Witness ==
    /\ pc = "done"
    /\ loaded["25/26"] = "docB"
    /\ loaded["24/25"] = "docA"
    /\ Len(result.player_stats_all) = 3
    /\ Len(result.matches_all) = 3
    /\ Len(result.events_all) = 3

\* C9: whatever the cache files and the HTTP exchange are, no exception of
\* the loading of a season leaves main, and main returns the three tables.
C9_LoadNeverRaises ==
    /\ ~(pc = "raised" /\ cause = "load")
    /\ pc = "done" => result.st = "ok"

\* C10: during and after a download attempt the cache file of the season is
\* the file it was before the call or the complete downloaded document,
\* and it is the file it was before once the attempt has failed.
C10_CacheIntact ==
    /\ \A s \in Range(SEASONS) :
          fs[s] = fs0[s] \/ (http \in DocNames /\ fs[s] = http)
    /\ pc = "fallback" => fs = fs0

\* C11: a download call whose GET failed has made that one GET only and has
\* returned the document of the cache file, or None when there is no cache
\* file.
C11_OneGetThenCache ==
    /\ \A s \in Range(SEASONS) : gets[s] <= 1
    /\ ( /\ gets[Season] = 1
         /\ http \in {"request", "status", "body"}
         /\ pc = "loaded" \/ (pc = "raised" /\ cause = "load") )
       => /\ pc = "loaded"
          /\ data = IF fs0[Season] = "absent" THEN "none" ELSE fs0[Season]

\* C12: a season whose fetch is disallowed gets no HTTP request and no write
\* of its cache file, and None when the file is absent; 24/25 is never
\* fetched or written; without download_2526 no cache file changes, and
\* with it only the file of 25/26 may change.
C12_CacheOnly ==
    /\ \A s \in Range(SEASONS) :
          ~allow_download(s) => gets[s] = 0 /\ fs[s] = fs0[s]
    /\ ( /\ ~allow_download(Season)
         /\ fs[Season] = "absent"
         /\ pc = "loaded" \/ (pc = "raised" /\ cause = "load") )
       => pc = "loaded" /\ data = "none"
    /\ gets["24/25"] = 0 /\ fs["24/25"] = fs0["24/25"]
    /\ ~download_2526 => fs = fs0
    /\ \A s \in Range(SEASONS) : s # "25/26" => fs[s] = fs0[s]

\* main returned after a download that rewrote the file of 25/26, with no
\* file for 24/25.
C12_Witness ==
    /\ pc = "done"
    /\ download_2526
    /\ gets["25/26"] = 1
    /\ fs["25/26"] # fs0["25/26"]
    /\ fs0["24/25"] = "absent"
    /\ loaded["24/25"] = "none"
    /\ gets["24/25"] = 0

-----------------------------------------------------------------------------
(* Claims on the statistics of build_player_stats.                         *)

GoalAliases == <<"score", "isGoal", "Score">>
AssistAliases == <<"assist", "isAssist", "Assist">>
OwnGoalAliases == <<"ownGoal", "own_goal", "OwnGoal">>

\* C13: build_stats_from_matchstatistics does not raise whichever aliases
\* of the three statistics are columns of matchStatistics, and a statistic
\* none of whose aliases is a column is 0 for every player.
C13_AliasesNeverRaise ==
    player_stats # Unset =>
        LET ms == resp.matchStatistics
            agg == build_stats_from_matchstatistics(resp)
            zero(names, f) ==
                FirstPresent(ms, names) = "" =>
                    \A k \in DOMAIN agg.rows : agg.rows[k][f] = 0
        IN  /\ agg.st = "ok"
            /\ zero(GoalAliases, "goals")
            /\ zero(AssistAliases, "assists")
            /\ zero(OwnGoalAliases, "own_goals")

\* The value of the flag column col in a record: its number, 0 when the
\* record has none or no alias is a column.
FlagValue(rec, col) ==
    IF col # "" /\ ValidNum(rec[col]) THEN NumVal(rec[col]) ELSE 0

RECURSIVE FlagTotal(_, _)
FlagTotal(recs, col) ==
    IF recs = <<>> THEN 0
    ELSE FlagValue(Head(recs), col) + FlagTotal(Tail(recs), col)

\* The matchStatistics records of roster entry i: those whose player
\* identifier is the number that is the entry's player_id.
StatRecordsOf(i) ==
    LET ms == resp.matchStatistics
        idcol == FirstPresent(ms, PlayerAliases)
        id == resp.players[i].baseObjectId
    IN  IF idcol = "" \/ ~ValidNum(id) THEN <<>>
        ELSE SelectSeq(ms, LAMBDA rec :
                 ValidNum(rec[idcol]) /\ NumVal(rec[idcol]) = NumVal(id))

\* C14: in the table build_player_stats returns, the goals, assists and
\* own_goals of every roster player are the sums of the resolved flag
\* values over the matchStatistics records of that player.
C14_StatsAreSums ==
    player_stats.st = "ok" =>
        \A i \in DOMAIN resp.players :
            /\ \E k \in DOMAIN player_stats.rows : player_stats.rows[k].src = i
            /\ \A k \in DOMAIN player_stats.rows :
                  LET row == player_stats.rows[k]
                      ms == resp.matchStatistics
                      total(names) ==
                          FlagTotal(StatRecordsOf(i), FirstPresent(ms, names))
                  IN  row.src = i =>
                          /\ row.goals = total(GoalAliases)
                          /\ row.assists = total(AssistAliases)
                          /\ row.own_goals = total(OwnGoalAliases)

\* Player 1 of the roster with two records {playerId: 1, score: 1}:
\* goals 2, assists 0, own_goals 0.
C14_Witness ==
    /\ player_stats.st = "ok"
    /\ Len(resp.matchStatistics) = 2
    /\ \A k \in DOMAIN resp.matchStatistics :
          /\ resp.matchStatistics[k].playerId = JInt(1)
          /\ resp.matchStatistics[k].score = JInt(1)
          /\ resp.matchStatistics[k].assist = Missing
    /\ \E k \in DOMAIN player_stats.rows :
          LET row == player_stats.rows[k]
          IN  /\ row.player_id = CInt(1)
              /\ row.goals = 2 /\ row.assists = 0 /\ row.own_goals = 0

\* The match identifier of a participation record by the two-tier policy:
\* its nonzero soccerMatchId, otherwise its itemEventId.
MatchIdentifier(rec) ==
    IF ValidNum(rec.soccerMatchId) /\ NumVal(rec.soccerMatchId) # 0
    THEN [tier |-> "s", n |-> NumVal(rec.soccerMatchId), ie |-> Missing]
    ELSE [tier |-> "ie", n |-> 0, ie |-> rec.itemEventId]

\* The itemPlayerHistory records of roster entry i.
HistRecordsOf(i) ==
    LET iph == resp.itemPlayerHistory
        idcol == FirstPresent(iph, PlayerAliases)
        id == resp.players[i].baseObjectId
    IN  IF idcol = "" \/ ~ValidNum(id) THEN {}
        ELSE {k \in DOMAIN iph :
                 ValidNum(iph[k][idcol]) /\ NumVal(iph[k][idcol]) = NumVal(id)}

\* C15: in the table build_player_stats returns, matches_played of every
\* roster player is the number of distinct match identifiers among the
\* itemPlayerHistory records of that player.
C15_MatchesPlayedDistinct ==
    player_stats.st = "ok" =>
        \A i \in DOMAIN resp.players :
            /\ \E k \in DOMAIN player_stats.rows : player_stats.rows[k].src = i
            /\ \A k \in DOMAIN player_stats.rows :
                  player_stats.rows[k].src = i =>
                      player_stats.rows[k].matches_played =
                          Cardinality({MatchIdentifier(resp.itemPlayerHistory[j]) :
                                          j \in HistRecordsOf(i)})

\* Player 1 has two records of match 5, one of them without itemEventId,
\* and one match played.
C15_Witness ==
    /\ player_stats.st = "ok"
    /\ resp.itemPlayerHistory =
          <<HistRec(JInt(1), JInt(5), JInt(1)), HistRec(JInt(1), JInt(5), Missing)>>
    /\ \E k \in DOMAIN player_stats.rows :
          /\ player_stats.rows[k].player_id = CInt(1)
          /\ player_stats.rows[k].matches_played = 1

-----------------------------------------------------------------------------
(* SpecDrift: documents in which one column is absent from every record of *)
(* itemPlayerHistory or of matchScoreStatistics.                           *)

\* The records without key c; "" leaves them whole.
DropColumn(recs, c) ==
    IF c = "" THEN recs
    ELSE [i \in DOMAIN recs |-> [recs[i] EXCEPT ![c] = Missing]]

ScoreDriftColumns ==
    {"", "soccerMatchId", "itemEventId", "scoreTime", "scoreTeamId",
     "teamHomeId", "scoreById"}

HistDriftColumns == {"", "itemEventId", "soccerMatchId"}

DriftScoreRecs ==
    {[BaseScore EXCEPT !.soccerMatchId = sm] : sm \in {JInt(0), JInt(5)}}

DriftHistRecs ==
    {HistRec(JInt(1), JInt(5), JInt(1)), HistRec(JInt(1), JInt(0), JInt(2))}

InitDrift ==
    /\ resp \in {Doc(BaseRoster, <<>>, DropColumn(iph, c), DropColumn(mss, d)) :
                    c \in HistDriftColumns, d \in ScoreDriftColumns,
                    iph \in SeqsOf(DriftHistRecs, 1, MaxHistRecs),
                    mss \in SeqsOf(DriftScoreRecs, 1, MaxEventRecs)}
    /\ InitOutputs

NextDrift == BuildMatches \/ BuildEvents \/ BuildPlayerStats

SpecDrift == InitDrift /\ [][NextDrift]_vars

\* C16: on a document in which an identifier column is absent from every
\* record of a non-empty list, none of build_matches_df,
\* build_scoring_events_df and build_matches_played_from_itemplayerhistory
\* raises, and build_matches_df keeps a row for every match.
C16_AbsentColumnNeverRaises ==
    /\ matches_df # Unset => matches_df.st = "ok" /\ matches_df.rows # <<>>
    /\ events_df # Unset => events_df.st = "ok"
    /\ player_stats # Unset =>
          build_matches_played_from_itemplayerhistory(resp).st = "ok"

-----------------------------------------------------------------------------
(* SpecFirst: score records of two matches that differ in date and in      *)
(* teamHome, which may be null.                                            *)

FirstRecs ==
    {[BaseScore EXCEPT !.soccerMatchId = sm, !.itemEventDate = JStr(d),
                       !.teamHome = th] :
        sm \in {JInt(5), JInt(6)}, d \in {"2024-01-01", "2024-01-02"},
        th \in {JStr("A"), JStr("A2"), Null}}

InitFirst ==
    /\ resp \in {Doc(BaseRoster, <<>>, <<>>, mss) :
                    mss \in SeqsOf(FirstRecs, 0, MaxFirstRecs)}
    /\ InitOutputs

NextFirst == BuildMatches

SpecFirst == InitFirst /\ [][NextFirst]_vars

\* The record of the group g of earliest itemEventDate, the first of them
\* in the input list.
Earliest(g) ==
    LET rank(i) == DateRank(Column(ScoreRecs, "itemEventDate")[i])
    IN  CHOOSE i \in g :
            \A j \in g : rank(i) < rank(j) \/ (rank(i) = rank(j) /\ i <= j)

\* Two cells hold the same value, or both hold none.
SameCell(a, b) == IF NotNa(a) THEN a = b ELSE ~NotNa(b)

\* C17: the descriptive fields of every row of the matches table are those
\* of one record of the row's group: the record of earliest itemEventDate,
\* and the first of the input list among records of that date.
C17_FieldsOfEarliestRecord ==
    matches_df.st = "ok" =>
        \A m \in DOMAIN matches_df.rows :
            LET row == matches_df.rows[m]
                e == Earliest(Members(row.match_key))
                cell(f) == Column(ScoreRecs, f)[e]
            IN  /\ SameCell(row.team_home, cell("teamHome"))
                /\ SameCell(row.team_away, cell("teamAway"))
                /\ SameCell(row.team_home_id, cell("teamHomeId"))
                /\ SameCell(row.team_away_id, cell("teamAwayId"))
                /\ SameCell(row.item_event_date, cell("itemEventDate"))
                /\ SameCell(row.item_event_id, cell("itemEventId"))
                /\ SameCell(row.soccer_match_id, ToInt64(cell("soccerMatchId")))

\* C18: the rows of build_player_stats are in descending order of goals,
\* then of assists, and rows equal in both are in roster order.
C18_OrderedByGoalsAssists ==
    player_stats.st = "ok" =>
        \A k, l \in DOMAIN player_stats.rows :
            LET a == player_stats.rows[k]
                b == player_stats.rows[l]
            IN  k < l =>
                    \/ a.goals > b.goals
                    \/ a.goals = b.goals /\ a.assists > b.assists
                    \/ a.goals = b.goals /\ a.assists = b.assists /\ a.src < b.src

\* The third roster entry scored and comes first; the two others are equal
\* and follow in roster order.
C18_Witness ==
    /\ player_stats.st = "ok"
    /\ Len(player_stats.rows) = 3
    /\ player_stats.rows[1].src = 3 /\ player_stats.rows[1].goals > 0
    /\ player_stats.rows[2].src = 1
    /\ player_stats.rows[3].src = 2
    /\ player_stats.rows[2].goals = player_stats.rows[3].goals
    /\ player_stats.rows[2].assists = player_stats.rows[3].assists

-----------------------------------------------------------------------------
(* Claims on the rows of build_scoring_events_df.                          *)

\* C19: whatever the roster, also with a player_id that occurs twice or is
\* null, build_scoring_events_df returns at most one row per score record:
\* no more rows than records, and no two rows of one record.
C19_OneRowPerRecord ==
    events_df.st = "ok" =>
        /\ Len(events_df.rows) <= Len(resp.matchScoreStatistics)
        /\ \A k, l \in DOMAIN events_df.rows :
              events_df.rows[k].src = events_df.rows[l].src => k = l

-----------------------------------------------------------------------------
(* SpecApp: the script of app_streamlit.py, run again at every interaction *)
(* of a session.  st.cache_data keeps the value load_combined_tables       *)
(* returned for each argument until it is cleared; build_tables is the     *)
(* imported module.  The epoch of a value is the number of refresh clicks  *)
(* made when main was called for it.                                       *)

\* A script run starts: st.button is True in the run that a click started.
ScriptRun ==
    /\ apc = "idle"
    /\ reruns < MaxReruns
    /\ \E click \in BOOLEAN :
          /\ click => clicks < MaxClicks
          /\ refresh_clicked' = click
          /\ clicks' = IF click THEN clicks + 1 ELSE clicks
          /\ apc' = IF click THEN "clear" ELSE "request"
    /\ reruns' = reruns + 1
    /\ served' = [kind |-> "none", epoch |-> 0]
    /\ UNCHANGED <<buildVars, mainVars, memo>>

\* The refresh leaves the memo as it is.
ClearSkipped ==
    /\ apc = "clear"
    /\ apc' = "request"
    /\ UNCHANGED <<buildVars, mainVars, memo, clicks, reruns, refresh_clicked,
                   served>>

\* if refresh_clicked: load_combined_tables.clear(), or st.cache_data.clear()
\* when that raises: no entry is left.
Clear ==
    /\ apc = "clear"
    /\ memo' = NoMemo
    /\ apc' = "request"
    /\ UNCHANGED <<buildVars, mainVars, clicks, reruns, refresh_clicked, served>>

\* load_combined_tables(download_2526=refresh_clicked) finds its entry.
RequestHit ==
    /\ apc = "request"
    /\ memo[refresh_clicked].kind # "none"
    /\ served' = [kind |-> "memo", epoch |-> memo[refresh_clicked].epoch]
    /\ apc' = "idle"
    /\ UNCHANGED <<buildVars, mainVars, memo, clicks, reruns, refresh_clicked>>

\* It finds none, and the function body calls build_tables.main.
RequestMiss ==
    /\ apc = "request"
    /\ memo[refresh_clicked].kind = "none"
    /\ download_2526' = refresh_clicked
    /\ apc' = "main"
    /\ UNCHANGED <<buildVars, fs, pc, si, http, data, all_player_stats,
                   all_matches, all_events, result, loaded, fs0, cause, gets,
                   memo, clicks, reruns, refresh_clicked, served>>

\* main returned: the tables are stored under the argument and given to
\* the script.
MainReturns ==
    /\ apc = "main"
    /\ memo' = [memo EXCEPT ![refresh_clicked] =
                   [kind |-> "tables", epoch |-> clicks]]
    /\ served' = [kind |-> "run", epoch |-> clicks]
    /\ apc' = "idle"
    /\ UNCHANGED <<buildVars, mainVars, clicks, reruns, refresh_clicked>>

\* An exception left main: nothing is stored and the script run ends.
MainRaises ==
    /\ apc = "main"
    /\ served' = [kind |-> "error", epoch |-> clicks]
    /\ apc' = "idle"
    /\ UNCHANGED <<buildVars, mainVars, memo, clicks, reruns, refresh_clicked>>

InitApp ==
    /\ resp = Doc(<<>>, <<>>, <<>>, <<>>)
    /\ InitOutputs

NextApp ==
    \/ ScriptRun
    \/ Clear
    \/ RequestHit
    \/ RequestMiss
    \/ MainReturns
    \/ MainRaises

SpecApp == InitApp /\ [][NextApp]_vars

====
